---- MODULE Spec2Model ----
(***************************************************************************)
(* JobQueue of flogram-lab/gobase: a channel of operations drained by one  *)
(* Run goroutine, with Enqueue / Join / JoinTimeout producers, Initialize  *)
(* and Stop.  Goroutines interleave at channel operations and at accesses  *)
(* of the shared fields q.ctx / q.cancel / q.op.                           *)
(* ParseConfstr, the parser of "mode;key=value;..." config values, is a    *)
(* pure function with a specification of its own (SpecConf).               *)
(***************************************************************************)
EXTENDS Integers, Sequences, FiniteSets, TLC

\* ---- bounds of the model ----
MaxOps == 2          \* submissions made in one behaviour
NumProcs == 2        \* producer goroutines
MaxBacklog == 2      \* largest backlog given to NewJobQueue
MaxInit == 1         \* calls of Initialize
MaxStop == 1         \* calls of Stop
MaxTime == 1         \* ticks of the clock
MaxTimeout == 1      \* largest startTimeout given to JoinTimeout
MaxInitLife == 2     \* calls of Initialize in the life-cycle specification
MaxStopLife == 2     \* calls of Stop in the life-cycle specification
MaxConfLen == 6      \* longest config value given to ParseConfstr
MaxOpsNested == 3    \* submissions when operations call back into the executor

Procs == 1..NumProcs
WorkerProc == 0      \* the goroutine of Run, when an operation makes a call
NilCtx == 0          \* the nil context.Context / nil CancelFunc
NoOp == 0            \* no operation held by Run
NoCtx == -1          \* the operation has not been called

VARIABLES
    conf,            \* a call of ParseConfstr: its inputs, then its results
    backlog,         \* cap(q.op)
    qctx,            \* q.ctx    : NilCtx or a context id
    qcancel,         \* q.cancel : NilCtx or the id of the context it cancels
    cancelled,       \* contexts whose cancel func has been called
    parentCancelled, \* the parent context given to Initialize is cancelled
    nInit,           \* Initialize calls made
    staleCtx,        \* values of q.ctx overwritten without synchronisation with Run
    chanBuf,         \* buffer of q.op
    chanClosed,      \* q.op is closed
    stopPc,          \* position of the goroutine inside Stop
    nStop,           \* Stop calls made
    stopDone,        \* some Stop call has returned
    pendingAtStop,   \* operations sitting in q.op when a Stop call returned
    runAtStop,       \* position of Run when Stop was last called (SpecLife)
    pendingAtCancel, \* operations in q.op when the parent context was cancelled (SpecLife)
    runPc,           \* position of the Run goroutine
    selCtx,          \* context whose Done() channel the current select waits on
    curOp,           \* operation received by Run
    defers,          \* LogPanic calls deferred by Run so far
    ops,             \* submissions, in call order
    accepted,        \* operations in the order q.op accepted them
    dequeued,        \* operations in the order Run received them
    started,         \* operations in the order Run invoked them
    counter          \* operation bodies entered and not yet left

vars == <<conf, backlog, qctx, qcancel, cancelled, parentCancelled, nInit, staleCtx,
          chanBuf, chanClosed, stopPc, nStop, stopDone, pendingAtStop,
          runAtStop, pendingAtCancel,
          runPc, selCtx, curOp, defers, ops, accepted, dequeued, started,
          counter>>

qVars == <<qctx, qcancel, cancelled, nInit, staleCtx>>
stopVars == <<stopPc, nStop, stopDone, pendingAtStop, runAtStop>>
runVars == <<runPc, selCtx, curOp, defers>>
logVars == <<accepted, dequeued, started>>

OpIds == 1..Len(ops)

\* ---- helpers ----

\* ctx.Err() != nil for a context derived by Initialize from the parent
IsCancelled(c) == c \in cancelled \/ parentCancelled

\* Values a read of q.ctx by Run can return: Run reads q.ctx without
\* synchronising with the writes of Stop and Initialize (data race).
CtxReads == {qctx} \cup staleCtx

\* Elements of a sequence
Range(s) == {s[i] : i \in 1..Len(s)}

IsPrefix(s, t) == Len(s) <= Len(t) /\ \A i \in 1..Len(s) : s[i] = t[i]

\* The producer goroutine is inside a call
Busy(p) ==
    \E o \in OpIds : ops[o].proc = p /\ ops[o].call \in {"sending", "waitc"}

\* ---- NewJobQueue ----
InitQueue ==
    /\ backlog \in 0..MaxBacklog
    /\ qctx = NilCtx
    /\ qcancel = NilCtx
    /\ cancelled = {}
    /\ parentCancelled = FALSE
    /\ nInit = 0
    /\ staleCtx = {}
    /\ chanBuf = <<>>
    /\ chanClosed = FALSE
    /\ stopPc = "idle"
    /\ nStop = 0
    /\ stopDone = FALSE
    /\ pendingAtStop = {}
    /\ runAtStop = "nostop"
    /\ pendingAtCancel = {}
    /\ runPc = "notstarted"
    /\ selCtx = NilCtx
    /\ curOp = NoOp
    /\ defers = 0
    /\ ops = <<>>
    /\ accepted = <<>>
    /\ dequeued = <<>>
    /\ started = <<>>
    /\ counter = 0

\* ParseConfstr is not called
NoConf == [pc |-> "none"]

Init == InitQueue /\ conf = NoConf

\* ---- Initialize ----
\* q.ctx, q.cancel = context.WithCancel(ctx)
InitializeN(n) ==
    /\ nInit < n
    /\ stopPc \in {"idle", "done", "panicked"}
    /\ nInit' = nInit + 1
    /\ qctx' = nInit + 1
    /\ qcancel' = nInit + 1
    /\ staleCtx' = IF runPc = "notstarted" THEN {} ELSE staleCtx \cup {qctx}
    /\ UNCHANGED <<backlog, conf, pendingAtCancel, cancelled, parentCancelled, chanBuf, chanClosed,
                   stopVars, runVars, ops, logVars, counter>>

Initialize == InitializeN(MaxInit)

\* (variant: only the channel is tested)
IsReady_chanOnly == TRUE

\* IsReady(): q.ctx != nil && q.cancel != nil && q.op != nil; q.op is set by
\* NewJobQueue and never assigned again
IsReady == qctx # NilCtx /\ qcancel # NilCtx

\* The owner of the parent context cancels it; pend is the new value of
\* pendingAtCancel
CancelParentObs(pend) ==
    /\ ~parentCancelled
    /\ qctx # NilCtx
    /\ ~IsCancelled(qctx)
    /\ parentCancelled' = TRUE
    /\ pendingAtCancel' = pend
    /\ UNCHANGED <<backlog, conf, qVars, chanBuf, chanClosed, stopVars, runVars,
                   ops, logVars, counter>>

CancelParent == CancelParentObs(pendingAtCancel)

\* JoinTimeout calls whose wrapper has not read the clock yet
Waiting == {o \in OpIds : ops[o].kind = "jt" /\ ops[o].body = "none"}

\* Time passes: time.Since(started) grows for every JoinTimeout call whose
\* wrapper has not run yet (the clock is followed up to MaxTime)
Tick ==
    /\ \E o \in Waiting : ops[o].waited < MaxTime
    /\ ops' = [o \in OpIds |->
                 IF o \in Waiting /\ ops[o].waited < MaxTime
                   THEN [ops[o] EXCEPT !.waited = @ + 1] ELSE ops[o]]
    /\ UNCHANGED <<backlog, conf, pendingAtCancel, qVars, parentCancelled, chanBuf, chanClosed,
                   stopVars, runVars, logVars, counter>>

\* ---- Stop ----
\* q.cancel(): a nil q.cancel (no Initialize, or cleared by an earlier Stop)
\* faults in the caller
StopCancelN(n, at) ==
    /\ stopPc \in {"idle", "done", "panicked"}
    /\ nStop < n
    /\ nStop' = nStop + 1
    /\ runAtStop' = at
    /\ IF qcancel = NilCtx
         THEN /\ stopPc' = "panicked"
              /\ UNCHANGED cancelled
         ELSE /\ stopPc' = "cancelled"
              /\ cancelled' = cancelled \cup {qcancel}
    /\ UNCHANGED <<backlog, conf, pendingAtCancel, qctx, qcancel, parentCancelled, nInit, staleCtx,
                   chanBuf, chanClosed, stopDone, pendingAtStop, runVars,
                   ops, logVars, counter>>

StopCancel == StopCancelN(MaxStop, runAtStop)

\* close(q.op): closing a closed channel faults in the caller
StopClose ==
    /\ stopPc = "cancelled"
    /\ IF chanClosed
         THEN /\ stopPc' = "panicked"
              /\ UNCHANGED chanClosed
         ELSE /\ stopPc' = "closed"
              /\ chanClosed' = TRUE
    /\ UNCHANGED <<backlog, conf, pendingAtCancel, qVars, parentCancelled, chanBuf, nStop, stopDone,
                   pendingAtStop, runAtStop, runVars, ops, logVars, counter>>

\* (variant: q.cancel is left set)
StopClear_keepsCancel ==
    /\ stopPc = "closed"
    /\ stopPc' = "done"
    /\ qctx' = NilCtx
    /\ staleCtx' = IF runPc = "notstarted" THEN {} ELSE staleCtx \cup {qctx}
    /\ stopDone' = TRUE
    /\ pendingAtStop' = pendingAtStop \cup Range(chanBuf)
    /\ UNCHANGED <<backlog, conf, pendingAtCancel, qcancel, cancelled, parentCancelled, nInit,
                   chanBuf, chanClosed, nStop, runAtStop, runVars, ops, logVars, counter>>

\* (variant: Stop returns only once Run is gone)
StopClear_waitsRun ==
    /\ stopPc = "closed"
    /\ runPc \in {"exited", "recovered", "crashed"}
    /\ stopPc' = "done"
    /\ qctx' = NilCtx
    /\ qcancel' = NilCtx
    /\ staleCtx' = IF runPc = "notstarted" THEN {} ELSE staleCtx \cup {qctx}
    /\ stopDone' = TRUE
    /\ pendingAtStop' = pendingAtStop \cup Range(chanBuf)
    /\ UNCHANGED <<backlog, conf, pendingAtCancel, cancelled, parentCancelled,
                   nInit, chanBuf, chanClosed, nStop, runAtStop, runVars, ops,
                   logVars, counter>>

\* q.ctx = nil; q.cancel = nil; return
StopClear ==
    /\ stopPc = "closed"
    /\ stopPc' = "done"
    /\ qctx' = NilCtx
    /\ qcancel' = NilCtx
    /\ staleCtx' = IF runPc = "notstarted" THEN {} ELSE staleCtx \cup {qctx}
    /\ stopDone' = TRUE
    /\ pendingAtStop' = pendingAtStop \cup Range(chanBuf)
    /\ UNCHANGED <<backlog, conf, pendingAtCancel, cancelled, parentCancelled, nInit, chanBuf,
                   chanClosed, nStop, runAtStop, runVars, ops, logVars, counter>>

\* ---- producers: Enqueue, Join, JoinTimeout ----
\* A call: proc the calling goroutine, kind the method ("nil" is Enqueue(nil)),
\* fault whether the operation's body faults, cctx whether the caller's
\* context is cancelled, timeout the startTimeout, waited time.Since(started),
\* call the caller's position, body the operation's position, ctx the context
\* the operation was called with, ret the value Join / JoinTimeout returned.
\* blocked: its q.op <- v had to wait and v still sits in the channel.
NewOp(p, k, f, cc, to) ==
    [proc |-> p, kind |-> k, fault |-> f, cctx |-> cc, timeout |-> to,
     waited |-> 0, call |-> "sending", body |-> "none", ctx |-> NoCtx,
     ret |-> "none", blocked |-> FALSE]

\* The goroutines that made a call so far are 1..UsedProcs
UsedProcs == Cardinality({ops[o].proc : o \in OpIds} \cap Procs)

\* What the caller does once q.op <- v went through: Enqueue returns,
\* Join / JoinTimeout go on to <-c
AfterSend(k) == IF k \in {"enq", "nil"} THEN "returned" ELSE "waitc"

\* (variant: Run skips a nil operation and goes on)
Received_skipsNil(o, k) ==
    /\ dequeued' = Append(dequeued, o)
    /\ IF k = "nil"
         THEN /\ runPc' = "loop"
              /\ UNCHANGED <<curOp, defers>>
         ELSE /\ runPc' = "recvd"
              /\ curOp' = o
              /\ defers' = defers + 1

\* What Run does with the received operation o: a nil operation ends Run,
\* any other one gets a LogPanic deferred and is about to be called
Received(o, k) ==
    /\ dequeued' = Append(dequeued, o)
    /\ IF k = "nil"
         THEN /\ runPc' = "exited"
              /\ UNCHANGED <<curOp, defers>>
         ELSE /\ runPc' = "recvd"
              /\ curOp' = o
              /\ defers' = defers + 1

\* (variant: the capacity test is off by one)
HasRoom_offByOne == Len(chanBuf) <= backlog

\* The channel has room for one more element
HasRoom == Len(chanBuf) < backlog

\* Run is waiting in its select with the receive case on the unbuffered q.op
Receiving == backlog = 0 /\ runPc = "select"

\* q.op <- v for operation o of the submissions os: the send faults on a
\* closed channel (the deferred close(c) of Join / JoinTimeout runs and the
\* fault goes on to the caller), puts v in a free slot of the buffer, or
\* hands v to Run waiting on the unbuffered channel
Send(o, os) ==
    \/ /\ chanClosed
       /\ ops' = [os EXCEPT ![o].call = "panicked", ![o].blocked = FALSE]
       /\ UNCHANGED <<chanBuf, logVars, runVars>>
    \/ /\ ~chanClosed
       /\ HasRoom
       /\ chanBuf' = Append(chanBuf, o)
       /\ accepted' = Append(accepted, o)
       /\ ops' = [os EXCEPT ![o].call = AfterSend(os[o].kind)]
       /\ UNCHANGED <<dequeued, started, runVars>>
    \/ /\ ~chanClosed
       /\ Receiving
       /\ accepted' = Append(accepted, o)
       /\ ops' = [os EXCEPT ![o].call = AfterSend(os[o].kind),
                           ![o].blocked = FALSE]
       /\ Received(o, os[o].kind)
       /\ UNCHANGED <<chanBuf, selCtx, started>>

\* q.op <- v blocks: open channel, no free slot and no receiver
Blocks == ~chanClosed /\ ~HasRoom /\ ~Receiving

\* A call by goroutine p reaches q.op <- v; n bounds the calls made
SubmitN(n, p, k, f, cc, to) ==
    /\ Len(ops) < n
    /\ p <= UsedProcs + 1
    /\ ~Busy(p)
    /\ LET os == Append(ops, NewOp(p, k, f, cc, to)) IN
          \/ Send(Len(os), os)
          \/ /\ Blocks
             /\ ops' = [os EXCEPT ![Len(os)].blocked = TRUE]
             /\ UNCHANGED <<chanBuf, logVars, runVars>>
    /\ UNCHANGED <<backlog, conf, pendingAtCancel, qVars, parentCancelled, chanClosed, stopVars,
                   counter>>

Submit(p, k, f, cc, to) == SubmitN(MaxOps, p, k, f, cc, to)

\* Enqueue(op); op may be nil
Enqueue ==
    \E p \in Procs : \/ \E f \in BOOLEAN : Submit(p, "enq", f, FALSE, 0)
                     \/ Submit(p, "nil", FALSE, FALSE, 0)

\* Join(ctx, op) up to its q.op <- wrapper; cc: ctx is already cancelled
Join ==
    \E p \in Procs, f \in BOOLEAN, cc \in BOOLEAN : Submit(p, "join", f, cc, 0)

\* JoinTimeout(ctx, startTimeout, op) up to its q.op <- wrapper, with
\* started := time.Now(); cc: ctx is already cancelled
JoinTimeout ==
    \E p \in Procs, f \in BOOLEAN, cc \in BOOLEAN, to \in 0..MaxTimeout :
        Submit(p, "jt", f, cc, to)

\* A blocked q.op <- v goes through
SendUnblock ==
    /\ \E o \in OpIds : ops[o].call = "sending" /\ Send(o, ops)
    /\ UNCHANGED <<backlog, conf, pendingAtCancel, qVars, parentCancelled, chanClosed, stopVars,
                   counter>>

\* ---- Run ----
\* go q.Run(): the go statement orders the earlier writes of q.ctx before Run
RunStart ==
    /\ runPc = "notstarted"
    /\ runPc' = "loop"
    /\ staleCtx' = {}
    /\ UNCHANGED <<backlog, conf, pendingAtCancel, qctx, qcancel, cancelled, parentCancelled, nInit,
                   chanBuf, chanClosed, stopVars, selCtx, curOp, defers, ops,
                   logVars, counter>>

\* A fault unwinds Run: the deferred LogPanic calls run when Run returns, the
\* most recent one recovers and Run returns to its caller; with no LogPanic
\* deferred yet the fault leaves the goroutine
Unwind(d) == IF d > 0 THEN "recovered" ELSE "crashed"

\* Entering select evaluates q.ctx.Done(); a nil q.ctx faults
RunSelect ==
    /\ runPc = "loop"
    /\ \E c \in CtxReads :
          IF c = NilCtx
            THEN /\ runPc' = Unwind(defers)
                 /\ UNCHANGED selCtx
            ELSE /\ runPc' = "select"
                 /\ selCtx' = c
    /\ UNCHANGED <<backlog, conf, pendingAtCancel, qVars, parentCancelled, chanBuf, chanClosed,
                   stopVars, curOp, defers, ops, logVars, counter>>

\* case <-q.ctx.Done(): return
RunDone ==
    /\ runPc = "select"
    /\ IsCancelled(selCtx)
    /\ runPc' = "exited"
    /\ UNCHANGED <<backlog, conf, pendingAtCancel, qVars, parentCancelled, chanBuf, chanClosed,
                   stopVars, selCtx, curOp, defers, ops, logVars, counter>>

\* (variant: the receive takes the newest element)
RecvIndex_newest(buf) == Len(buf)

\* Position in the buffer of the element a receive takes
RecvIndex(buf) == 1

Remove(buf, i) == SubSeq(buf, 1, i - 1) \o SubSeq(buf, i + 1, Len(buf))

\* case op := <-q.op with an element in the buffer (closed or not)
RunRecvBuffered ==
    /\ runPc = "select"
    /\ chanBuf # <<>>
    /\ LET i == RecvIndex(chanBuf) IN
          /\ Received(chanBuf[i], ops[chanBuf[i]].kind)
          /\ chanBuf' = Remove(chanBuf, i)
          /\ ops' = [ops EXCEPT ![chanBuf[i]].blocked = FALSE]
    /\ UNCHANGED <<backlog, conf, pendingAtCancel, qVars, parentCancelled, chanClosed, stopVars,
                   selCtx, accepted, started, counter>>

\* case op := <-q.op on the closed and drained channel: op == nil, return
RunRecvClosed ==
    /\ runPc = "select"
    /\ chanClosed
    /\ chanBuf = <<>>
    /\ runPc' = "exited"
    /\ UNCHANGED <<backlog, conf, pendingAtCancel, qVars, parentCancelled, chanBuf, chanClosed,
                   stopVars, selCtx, curOp, defers, ops, logVars, counter>>

\* (variant: the comparison is turned around)
Stale_reversed(o) == ops[o].waited < ops[o].timeout

\* time.Since(started) >= startTimeout
Stale(o) == ops[o].waited >= ops[o].timeout

\* The wrapper of JoinTimeout skips a stale operation
Skips(o) == ops[o].kind = "jt" /\ Stale(o)

\* (variant: go op(q.ctx), Run does not wait for the operation)
CallPc_go(o) == IF Skips(o) THEN "sendc" ELSE "loop"

\* (variant: the wrapper sends on c before it calls the operation)
CallPc_signalFirst(o) == IF ops[o].kind = "enq" THEN "inop" ELSE "sendc"

\* (variant: a stale wrapper ends Run)
CallPc_skipExits(o) == IF Skips(o) THEN "exited" ELSE "inop"

\* Run waits for the call op(q.ctx) to return
CallPc(o) == IF Skips(o) THEN "sendc" ELSE "inop"

\* op(q.ctx): the function Run received is called with the value read from
\* q.ctx; the wrappers of Join and JoinTimeout hand it on to the operation
RunCall ==
    /\ runPc = "recvd"
    /\ \E c \in CtxReads :
          ops' = [ops EXCEPT ![curOp].ctx = c,
                             ![curOp].body = IF Skips(curOp) THEN "skipped"
                                             ELSE "running"]
    /\ started' = Append(started, curOp)
    /\ counter' = IF Skips(curOp) THEN counter ELSE counter + 1
    /\ runPc' = CallPc(curOp)
    /\ UNCHANGED <<backlog, conf, pendingAtCancel, qVars, parentCancelled, chanBuf, chanClosed,
                   stopVars, selCtx, curOp, defers, accepted, dequeued>>

\* (variant: the wrappers return without sending on c)
ReturnPc_noSignal(k) == "loop"

\* After the operation returned: Enqueue's operation takes Run back to the
\* loop, a wrapper goes on to c <- true
ReturnPc(k) == IF k = "enq" THEN "loop" ELSE "sendc"

\* The body of the operation returns
OpReturn ==
    \E o \in OpIds :
        /\ ops[o].body = "running"
        /\ ~ops[o].fault
        /\ ops' = [ops EXCEPT ![o].body = "done"]
        /\ counter' = counter - 1
        /\ runPc' = IF runPc = "inop" /\ curOp = o THEN ReturnPc(ops[o].kind)
                    ELSE runPc
        /\ UNCHANGED <<backlog, conf, pendingAtCancel, qVars, parentCancelled, chanBuf, chanClosed,
                       stopVars, selCtx, curOp, defers, logVars>>

\* The body of the operation faults: the fault unwinds the wrapper (its
\* c <- true is not reached) and Run
OpPanic ==
    \E o \in OpIds :
        /\ ops[o].body = "running"
        /\ ops[o].fault
        /\ ops' = [ops EXCEPT ![o].body = "panicked"]
        /\ runPc' = IF runPc = "inop" /\ curOp = o THEN Unwind(defers)
                    ELSE runPc
        /\ UNCHANGED <<backlog, conf, pendingAtCancel, qVars, parentCancelled, chanBuf, chanClosed,
                       stopVars, selCtx, curOp, defers, logVars, counter>>

\* The value the wrapper of operation o sends on c
Signal(o) == ops[o].body # "skipped"

\* c <- true / c <- false in the wrapper meets return <-c in the caller
WrapperSignal ==
    /\ runPc = "sendc"
    /\ ops[curOp].call = "waitc"
    /\ ops' = [ops EXCEPT ![curOp].call = "returned",
                          ![curOp].ret = Signal(curOp)]
    /\ runPc' = "loop"
    /\ UNCHANGED <<backlog, conf, pendingAtCancel, qVars, parentCancelled, chanBuf, chanClosed,
                   stopVars, selCtx, curOp, defers, logVars, counter>>

Next ==
    \/ Initialize
    \/ CancelParent
    \/ Tick
    \/ StopCancel
    \/ StopClose
    \/ StopClear
    \/ Enqueue
    \/ Join
    \/ JoinTimeout
    \/ SendUnblock
    \/ RunStart
    \/ RunSelect
    \/ RunDone
    \/ RunRecvBuffered
    \/ RunRecvClosed
    \/ RunCall
    \/ OpReturn
    \/ OpPanic
    \/ WrapperSignal

Spec == Init /\ [][Next]_vars

\* ---- the executor's life cycle: repeated Initialize and Stop ----
\* Initialize and Stop may each be called up to MaxInitLife / MaxStopLife
\* times; the producers only call Enqueue.  runAtStop and pendingAtCancel
\* record what Run was doing when Stop was called and what the channel held
\* when the parent context was cancelled.
InitializeLife == InitializeN(MaxInitLife)

CancelParentLife == CancelParentObs(Range(chanBuf))

StopCancelLife == StopCancelN(MaxStopLife, runPc)

NextLife ==
    \/ InitializeLife
    \/ CancelParentLife
    \/ StopCancelLife
    \/ StopClose
    \/ StopClear
    \/ Enqueue
    \/ SendUnblock
    \/ RunStart
    \/ RunSelect
    \/ RunDone
    \/ RunRecvBuffered
    \/ RunRecvClosed
    \/ RunCall
    \/ OpReturn
    \/ OpPanic

SpecLife == Init /\ [][NextLife]_vars

\* ---- the executor left to work: no Stop, no cancellation, no fault ----
\* The producers submit operations that return; Enqueue is not given nil.
EnqueueLive == \E p \in Procs : Submit(p, "enq", FALSE, FALSE, 0)

JoinLive == \E p \in Procs : Submit(p, "join", FALSE, FALSE, 0)

JoinTimeoutLive ==
    \E p \in Procs, to \in 0..MaxTimeout : Submit(p, "jt", FALSE, FALSE, to)

NextLive ==
    \/ Initialize
    \/ Tick
    \/ EnqueueLive
    \/ JoinLive
    \/ JoinTimeoutLive
    \/ SendUnblock
    \/ RunStart
    \/ RunSelect
    \/ RunRecvBuffered
    \/ RunCall
    \/ OpReturn
    \/ WrapperSignal

\* The Run goroutine and a sender whose send can go through are scheduled,
\* and an operation that returns does return
SpecLive ==
    /\ Init
    /\ [][NextLive]_vars
    /\ WF_vars(SendUnblock)
    /\ WF_vars(RunSelect)
    /\ WF_vars(RunRecvBuffered)
    /\ WF_vars(RunCall)
    /\ WF_vars(OpReturn)
    /\ WF_vars(WrapperSignal)

\* ---- operations that call back into their own executor ----
\* No Stop, no cancellation, no fault.  The body of the operation Run is
\* executing may call Enqueue or Join on the executor; the call is made by
\* the goroutine of Run, and the body cannot return while that call has not
\* returned.
EnqueueOuter ==
    \E p \in Procs : SubmitN(MaxOpsNested, p, "enq", FALSE, FALSE, 0)

JoinOuter ==
    \E p \in Procs : SubmitN(MaxOpsNested, p, "join", FALSE, FALSE, 0)

\* Run is inside the body of an operation
InBody == runPc = "inop" /\ ops[curOp].body = "running"

OpCallsEnqueue ==
    InBody /\ SubmitN(MaxOpsNested, WorkerProc, "enq", FALSE, FALSE, 0)

OpCallsJoin ==
    InBody /\ SubmitN(MaxOpsNested, WorkerProc, "join", FALSE, FALSE, 0)

\* (variant: the body returns although the call it made has not returned)
OpReturnNested_early == OpReturn

OpReturnNested == ~Busy(WorkerProc) /\ OpReturn

NextNested ==
    \/ Initialize
    \/ EnqueueOuter
    \/ JoinOuter
    \/ SendUnblock
    \/ RunStart
    \/ RunSelect
    \/ RunRecvBuffered
    \/ RunCall
    \/ OpCallsEnqueue
    \/ OpCallsJoin
    \/ OpReturnNested
    \/ WrapperSignal

SpecNested == Init /\ [][NextNested]_vars

\* ---- ParseConfstr ----
\* A string is a sequence of characters; "=" and ";" are the separators,
\* "a" and "b" stand for every other character.
ConfChars == {"a", "b", "=", ";"}

Strings(n) == UNION {[1..k -> ConfChars] : k \in 0..n}

\* strings.Index(s, c) + 1: position of the first c in s, 0 when there is none
Index(s, c) ==
    IF \E i \in 1..Len(s) : s[i] = c
      THEN CHOOSE i \in 1..Len(s) : s[i] = c /\ \A j \in 1..(i - 1) : s[j] # c
      ELSE 0

\* strings.Contains(s, c)
Contains(s, c) == Index(s, c) # 0

\* strings.SplitN(s, sep, n): n = 0 gives no substring, n > 0 at most n
\* substrings, the last one the unsplit remainder, n < 0 all substrings
RECURSIVE SplitN(_, _, _)
SplitN(s, sep, n) ==
    IF n = 0 THEN <<>>
    ELSE IF n = 1 \/ Index(s, sep) = 0 THEN <<s>>
    ELSE <<SubSeq(s, 1, Index(s, sep) - 1)>>
            \o SplitN(SubSeq(s, Index(s, sep) + 1, Len(s)), sep, n - 1)

\* strings.Split(s, sep) is SplitN(s, sep, -1)
Split(s, sep) == SplitN(s, sep, -1)

\* opts[k] = v
Put(opts, k, v) ==
    [x \in DOMAIN opts \cup {k} |-> IF x = k THEN v ELSE opts[x]]

\* What ParseConfstr returns: mode, opts, err ("" , nil and the error)
Failed(e) == [mode |-> <<>>, opts |-> <<>>, err |-> e]

\* for i := ...; i < len(config); i++ { pair := SplitN(config[i], "=", 1) ... }
RECURSIVE ParsePairs(_, _, _, _)
ParsePairs(config, i, mode, opts) ==
    IF i > Len(config) THEN [mode |-> mode, opts |-> opts, err |-> "none"]
    ELSE LET pair == SplitN(config[i], "=", 1) IN
         IF Len(pair) # 2 THEN Failed("parse key=value failed")
         ELSE IF pair[2] = <<>> THEN Failed("empty val")
         ELSE ParsePairs(config, i + 1, mode, Put(opts, pair[1], pair[2]))

\* ParseConfstr(key, globalConfig): ok is whether the key is found, value
\* the string found
ParseConfstrOf(ok, value) ==
    IF ~ok THEN Failed("not used")
    ELSE LET config == Split(value, ";") IN
         IF Len(config) < 1 THEN Failed("invalid")
         ELSE IF Contains(config[1], "=") THEN Failed("first parameter")
         ELSE ParsePairs(config, 2, config[1], <<>>)

\* The calls of ParseConfstr considered
ConfCalls ==
    {[pc |-> "call", ok |-> ok, value |-> v] :
        ok \in BOOLEAN, v \in Strings(MaxConfLen)}

InitConf == InitQueue /\ backlog = 0 /\ conf \in ConfCalls

\* ParseConfstr runs and returns
ParseConfstr ==
    /\ conf.pc = "call"
    /\ conf' = [pc |-> "returned", ok |-> conf.ok, value |-> conf.value,
                res |-> ParseConfstrOf(conf.ok, conf.value)]
    /\ UNCHANGED <<backlog, pendingAtCancel, qVars, parentCancelled, chanBuf,
                   chanClosed, stopVars, runVars, ops, logVars, counter>>

NextConf == ParseConfstr

SpecConf == InitConf /\ [][NextConf]_vars

\* ---- properties ----

\* Position of x in the sequence s (0 when x is not in s)
Pos(s, x) == IF x \in Range(s) THEN CHOOSE i \in 1..Len(s) : s[i] = x ELSE 0

\* The body of operation o has been entered
Entered(o) == ops[o].body \in {"running", "done", "panicked"}

\* Run is gone: it returned or its goroutine died
RunOver == runPc \in {"exited", "recovered", "crashed"}

\* C1: crash isolation - the step in which the body of an operation faults
\* leaves the Run loop running (Run neither returns nor dies in that step).
C1_FaultLeavesRunAlive ==
    [][\A o \in OpIds :
          (ops[o].body = "running" /\ ops'[o].body = "panicked") => ~RunOver']_vars

\* C2: FIFO - the operations Run has invoked are, in order, the first ones
\* the channel accepted, and the submissions of one producer are accepted in
\* the order the producer made them.
C2_Fifo ==
    /\ IsPrefix(started, accepted)
    /\ \A i, j \in 1..Len(accepted) :
          (i < j /\ ops[accepted[i]].proc = ops[accepted[j]].proc)
              => accepted[i] < accepted[j]

\* Two producers, the second call accepted first, both invoked in the order
\* of acceptance
C2_Witness ==
    /\ accepted = <<2, 1>>
    /\ started = <<2, 1>>
    /\ ops[1].proc # ops[2].proc

\* C3: mutual exclusion - at most one operation body is executing.
C3_MutualExclusion == counter <= 1

\* A body is executing while another accepted operation waits in the channel
\* and a producer is blocked behind it
C3_Witness ==
    /\ counter = 1
    /\ chanBuf # <<>>
    /\ \E o \in OpIds : ops[o].body = "running" /\ ops[o].proc # ops[chanBuf[1]].proc

\* C4: no operation that sat in the channel when Stop returned is invoked.
C4_PendingDiscarded ==
    \A o \in pendingAtStop : o \notin Range(started)

\* C5: an Enqueue call made after Stop returned does not fault in the caller.
C5_EnqueueAfterStop ==
    [][(/\ stopDone
        /\ Len(ops') = Len(ops) + 1
        /\ ops'[Len(ops')].kind \in {"enq", "nil"})
          => ops'[Len(ops')].call # "panicked"]_vars

\* C6: Join returns true only once its operation has run to completion, and
\* an operation accepted after the wrapper of a Join is not invoked before
\* the operation of that Join has returned.
C6_JoinAfterCompletion ==
    \A o \in OpIds :
        ops[o].kind = "join" =>
            /\ ops[o].call = "returned" =>
                  (ops[o].ret = TRUE /\ ops[o].body = "done")
            /\ \A o2 \in Range(started) :
                  (o \in Range(accepted) /\ Pos(accepted, o2) > Pos(accepted, o))
                      => ops[o].body = "done"

\* A Join has returned true and the operation accepted behind it was invoked
C6_Witness ==
    \E o \in OpIds, o2 \in Range(started) :
        /\ ops[o].kind = "join"
        /\ ops[o].call = "returned"
        /\ ops[o].ret = TRUE
        /\ Pos(accepted, o2) > Pos(accepted, o)

\* C7: JoinTimeout with startTimeout = 0 whose wrapper is reached after a
\* nonzero delay never enters the operation's body, and returns false.
C7_ZeroTimeout ==
    \A o \in OpIds :
        (ops[o].kind = "jt" /\ ops[o].timeout = 0 /\ ops[o].waited > 0) =>
            /\ ~Entered(o)
            /\ ops[o].call = "returned" => ops[o].ret = FALSE

\* A JoinTimeout with startTimeout = 0 has returned false after a delay
C7_Witness ==
    \E o \in OpIds :
        /\ ops[o].kind = "jt"
        /\ ops[o].timeout = 0
        /\ ops[o].waited > 0
        /\ ops[o].call = "returned"
        /\ ops[o].ret = FALSE
        /\ ops[o].body = "skipped"

\* Operations accepted by the channel and not yet received by Run
Pending == Len(accepted) - Len(dequeued)

\* C8: backpressure - the operations pending in the channel never exceed the
\* backlog, and a send is accepted only in a step that starts with a free
\* slot or in which Run receives an element.
C8_Backpressure ==
    /\ [](Pending <= backlog)
    /\ [][Len(accepted') > Len(accepted) =>
             (Pending < backlog \/ Len(dequeued') > Len(dequeued))]_vars

\* A send that found the channel full was accepted after Run freed a slot
C8_Witness ==
    \E o \in Range(chanBuf) :
        /\ ops[o].blocked
        /\ Len(chanBuf) = backlog
        /\ Len(dequeued) > 0

\* C9: the operation of a Join / JoinTimeout whose caller's context is
\* cancelled is not run.
C9_CancelledCallerNotRun ==
    \A o \in OpIds :
        (ops[o].kind \in {"join", "jt"} /\ ops[o].cctx) => ~Entered(o)

\* Stop has called q.cancel()
StopCalled == stopPc \in {"cancelled", "closed", "done"}

\* C10: while Stop has been called, every executing operation holds a
\* non-nil, cancelled context.
C10_StoppingContext ==
    \A o \in OpIds :
        (ops[o].body = "running" /\ StopCalled) =>
            (ops[o].ctx # NilCtx /\ IsCancelled(ops[o].ctx))

\* A call of Initialize returns in this step
InitializeReturns == nInit' > nInit

\* A call of Stop returns in this step
StopReturns == stopPc = "closed" /\ stopPc' = "done"

StopCalls == nStop' > nStop

\* Stop faults in this step at q.cancel()
FaultsAtCancel == StopCalls /\ stopPc' = "panicked"

\* Stop faults in this step at close(q.op)
FaultsAtClose == stopPc = "cancelled" /\ stopPc' = "panicked"

\* C12 (as stated): a Stop called after a Stop that returned faults, and the
\* fault is the second close of the operation channel.
C12_SecondStopDoubleClose ==
    [][(stopDone /\ StopCalls) => stopPc' = "cancelled"]_vars

\* C12: on an executor that was initialized once, a Stop called after a Stop
\* that returned faults at q.cancel(), which the first Stop set to nil, and
\* never reaches close(q.op); a Stop faults at close(q.op) only when
\* Initialize was called again after the channel was closed.
C12_SecondStopFaults ==
    [][/\ (stopDone /\ nInit <= 1 /\ StopCalls) => FaultsAtCancel
       /\ FaultsAtClose => nInit >= 2]_vars

\* Initialize once, Stop returned, and a second Stop has faulted
C12_Witness ==
    nInit = 1 /\ stopDone /\ nStop = 2 /\ stopPc = "panicked" /\ chanClosed

\* A key=value segment: one "=", with a non-empty key before it and a
\* non-empty value after it
IsPair(seg) ==
    /\ Index(seg, "=") > 1
    /\ Index(seg, "=") < Len(seg)
    /\ ~Contains(SubSeq(seg, Index(seg, "=") + 1, Len(seg)), "=")

KeyOf(seg) == SubSeq(seg, 1, Index(seg, "=") - 1)

ValueOf(seg) == SubSeq(seg, Index(seg, "=") + 1, Len(seg))

\* The segments of a value: the text between its ";"
Segments(v) == Split(v, ";")

\* A value of the documented form "mode;key1=value1;...;keyN=valueN;": a
\* non-empty mode without "=", then key=value pairs with distinct keys, each
\* followed by ";"
IsDocumented(v) ==
    LET c == Segments(v) IN
       /\ Len(c) >= 3
       /\ c[1] # <<>>
       /\ ~Contains(c[1], "=")
       /\ c[Len(c)] = <<>>
       /\ \A i \in 2..(Len(c) - 1) : IsPair(c[i])
       /\ \A i, j \in 2..(Len(c) - 1) : KeyOf(c[i]) = KeyOf(c[j]) => i = j

\* C13 (as stated): for a value of the documented form ParseConfstr returns
\* no error, the first segment as the mode and every key with its value.
C13_DocumentedFormAccepted ==
    (conf.pc = "returned" /\ conf.ok /\ IsDocumented(conf.value))
      => LET c == Segments(conf.value) IN
            /\ conf.res.err = "none"
            /\ conf.res.mode = c[1]
            /\ \A i \in 2..(Len(c) - 1) :
                  /\ KeyOf(c[i]) \in DOMAIN conf.res.opts
                  /\ conf.res.opts[KeyOf(c[i])] = ValueOf(c[i])

\* The caller of operation o waits on its completion channel: return <-c
WaitsSignal(o) == ops[o].kind \in {"join", "jt"} /\ ops[o].call = "waitc"

\* C14: once Stop has returned and Run is gone, no Join / JoinTimeout caller
\* whose wrapper was left in the channel still waits for its signal, and no
\* Join / JoinTimeout call has faulted in the caller.
C14_CallerNotStranded ==
    (stopDone /\ RunOver) =>
        \A o \in OpIds :
            /\ (WaitsSignal(o) => o \notin Range(chanBuf))
            /\ (ops[o].kind \in {"join", "jt"} => ops[o].call # "panicked")

\* C15: once the body of the operation of a Join / JoinTimeout has faulted
\* and Run has finished unwinding, the caller has been signalled and has
\* returned.
C15_SignalAfterFault ==
    \A o \in OpIds :
        (ops[o].kind \in {"join", "jt"} /\ ops[o].body = "panicked" /\ RunOver)
            => ops[o].call = "returned"

\* The wrapper of operation o has been dequeued and has begun executing;
\* from then on ops[o].waited is the time.Since(started) it read
WrapperRan(o) == ops[o].body # "none"

\* C16: a JoinTimeout whose wrapper ran entered the operation's body if and
\* only if the time elapsed since submission did not exceed startTimeout at
\* that moment, and it returns true exactly when the body ran to completion.
C16_StalenessAtDequeue ==
    \A o \in OpIds :
        (ops[o].kind = "jt" /\ WrapperRan(o)) =>
            /\ Entered(o) <=> ops[o].waited <= ops[o].timeout
            /\ ops[o].call = "returned" =>
                  (ops[o].ret = TRUE <=> ops[o].body = "done")

\* The wrapper of the JoinTimeout o finds its operation stale in this step
SkipStep(o) == ops[o].body = "none" /\ ops'[o].body = "skipped"

\* The wrapper of a stale JoinTimeout sends its signal in this step
SkipSignalStep ==
    runPc = "sendc" /\ ops[curOp].body = "skipped" /\ runPc' # runPc

\* C17: a stale JoinTimeout entry is taken in its FIFO position and changes
\* nothing else: the channel, the other operations and the number of running
\* bodies are as before, the wrapper goes on to its signal, and after the
\* signal Run is back at the loop like after any operation.
C17_StaleLeavesQueue ==
    /\ [][\A o \in OpIds :
             SkipStep(o) =>
                /\ started' = Append(started, o)
                /\ IsPrefix(started', accepted')
                /\ <<chanBuf, chanClosed, accepted, dequeued, counter>>'
                      = <<chanBuf, chanClosed, accepted, dequeued, counter>>
                /\ \A o2 \in OpIds \ {o} : ops'[o2] = ops[o2]
                /\ runPc' = "sendc"]_vars
    /\ [][SkipSignalStep =>
             /\ runPc' = "loop"
             /\ ops'[curOp].ret = FALSE
             /\ <<chanBuf, chanClosed, accepted, dequeued, started, counter>>'
                   = <<chanBuf, chanClosed, accepted, dequeued, started, counter>>
             /\ \A o2 \in OpIds \ {curOp} : ops'[o2] = ops[o2]]_vars

\* A stale JoinTimeout returned false and the operation accepted behind it
\* ran to completion
C17_Witness ==
    \E o, o2 \in OpIds :
        /\ ops[o].body = "skipped"
        /\ ops[o].call = "returned"
        /\ ops[o].ret = FALSE
        /\ Pos(accepted, o) > 0
        /\ Pos(accepted, o2) > Pos(accepted, o)
        /\ ops[o2].body = "done"

\* Run ends in this step
RunEnds == ~RunOver /\ RunOver'

\* The body of an operation faults in this step
OpFaults == \E o \in OpIds : ops[o].body = "running" /\ ops'[o].body = "panicked"

\* Stop was called once, on an executor initialized once before Run was
\* started, while Run was executing an operation
StoppedWhileExecuting ==
    /\ nInit = 1
    /\ nStop = 1
    /\ StopCalled
    /\ NilCtx \notin staleCtx
    /\ runAtStop = "inop"

\* C18: when Stop was called while Run was executing an operation, and no
\* operation faults, Run ends by returning from the closed-channel or the
\* cancellation branch, not by a fault of its own.
C18_RunExitsNormally ==
    [][(StoppedWhileExecuting /\ RunEnds /\ ~OpFaults) => runPc' = "exited"]_vars

\* C19: with no Stop called, none of the operations that sat in the channel
\* when the parent context was cancelled is invoked by Run.
C19_PendingAbandoned ==
    nStop = 0 => \A o \in pendingAtCancel : o \notin Range(started)

\* A statement of Stop is executed in this step
StopStep == stopPc' # stopPc \/ nStop' # nStop

\* C20: Stop never waits for Run or for an operation - once called, its next
\* statement can always be executed, whatever Run is doing - and no statement
\* of Stop changes the position of Run or of an operation; an executing
\* operation goes on until it returns or faults by itself.
C20_StopDoesNotWait ==
    /\ [](stopPc = "cancelled" => ENABLED StopClose)
    /\ [](stopPc = "closed" => ENABLED StopClear)
    /\ [][StopStep => <<runVars, ops, counter, chanBuf>>'
                         = <<runVars, ops, counter, chanBuf>>]_vars
    /\ [][\A o \in OpIds :
             ops[o].body = "running" =>
                /\ ops'[o].body \in {"running", "done", "panicked"}
                /\ ops'[o].body = "panicked" => ops[o].fault]_vars

\* Stop has returned while Run is still executing an operation
C20_Witness ==
    /\ stopDone
    /\ stopPc = "done"
    /\ runPc = "inop"
    /\ ops[curOp].body = "running"

\* C21: Stopped is terminal - once a Stop call has returned, IsReady is false
\* for good, whatever is called afterwards.
C21_StoppedIsTerminal == stopDone => ~IsReady

\* Run was started on the initialized executor and is in its loop
RunHealthy ==
    /\ qctx # NilCtx
    /\ staleCtx = {}
    /\ runPc \in {"loop", "select", "recvd", "inop", "sendc"}

\* The call o is over: an Enqueue was accepted and its operation executed, a
\* Join / JoinTimeout returned
Served(o) ==
    /\ ops[o].call = "returned"
    /\ ops[o].kind = "enq" => ops[o].body = "done"

BlockedInEnqueue(o) ==
    ops[o].kind \in {"enq", "nil"} /\ ops[o].call = "sending" /\ ops[o].blocked

\* C23: a caller blocked inside Enqueue when Stop closes the channel is not
\* crashed by a fault when it is released.
C23_BlockedEnqueueReleased ==
    [][\A o \in OpIds :
          (BlockedInEnqueue(o) /\ chanClosed) => ops'[o].call # "panicked"]_vars

\* The calls made by operations from inside Run
Inner == {o \in OpIds : ops[o].proc = WorkerProc}

\* While a call made by the executing operation has not returned, Run stays
\* inside that operation and invokes nothing
WorkerStuck ==
    Busy(WorkerProc) =>
        /\ runVars' = runVars
        /\ started' = started
        /\ ops'[curOp].body = "running"
        /\ Busy(WorkerProc)'

\* C24 (as stated): a call of Enqueue or Join made by an operation against
\* its own executor never returns.
C24_InnerCallNeverReturns == \A o \in Inner : ops[o].call # "returned"

\* C24: a Join made by an operation against its own executor never returns,
\* and neither does an Enqueue that finds no free slot in the channel; from
\* then on the outer operation never completes and Run invokes nothing.  An
\* Enqueue that finds a free slot returns at once.
C24_InnerCallDeadlock ==
    /\ [](\A o \in Inner :
             /\ ops[o].kind = "join" => ops[o].call \in {"sending", "waitc"}
             /\ (ops[o].kind = "enq" /\ ops[o].blocked) => ops[o].call = "sending"
             /\ (ops[o].kind = "enq" /\ ~ops[o].blocked) => ops[o].call = "returned")
    /\ [][WorkerStuck]_vars

\* An operation is stuck in a Join on its own executor, the wrapper of that
\* Join sits in the channel behind a later submission
C24_Witness ==
    \E o \in Inner :
        /\ ops[o].kind = "join"
        /\ ops[o].call = "waitc"
        /\ o \in Range(chanBuf)
        /\ Len(chanBuf) = 2
        /\ InBody

\* NewJobQueue was called, Initialize was not, and no Run is consuming
Unconsumed == nInit = 0 /\ runPc = "notstarted"

Min(a, b) == IF a < b THEN a ELSE b

\* C25: on an executor without Initialize and without a Run loop, exactly the
\* first backlog submissions are accepted; an accepted Enqueue has returned,
\* every further call is blocked in its send, nothing is executed, and no
\* Join / JoinTimeout returns, accepted or not.
C25_UnconsumedBacklog ==
    Unconsumed =>
        /\ started = <<>>
        /\ accepted = [i \in 1..Min(Len(ops), backlog) |-> i]
        /\ chanBuf = accepted
        /\ \A o \in OpIds :
              /\ ~Entered(o)
              /\ o > backlog => (ops[o].call = "sending" /\ ops[o].blocked)
              /\ (o <= backlog /\ ops[o].kind \in {"enq", "nil"})
                    => (ops[o].call = "returned" /\ ~ops[o].blocked)
              /\ (o <= backlog /\ ops[o].kind \in {"join", "jt"})
                    => ops[o].call = "waitc"

\* backlog 1: a Join was accepted and waits for its signal, the Enqueue made
\* after it is blocked
C25_Witness ==
    /\ Unconsumed
    /\ backlog = 1
    /\ Len(ops) = 2
    /\ ops[1].kind = "join"
    /\ ops[1].call = "waitc"
    /\ ops[2].kind = "enq"
    /\ ops[2].call = "sending"
    /\ chanBuf = <<1>>

\* Run receives the nil operation o in this step
ReceivesNil(o) ==
    ops[o].kind = "nil" /\ o \notin Range(dequeued) /\ o \in Range(dequeued')

\* C26: the step in which Run receives a nil operation ends Run, stopped and
\* cancelled or not, and no operation accepted after a nil operation that Run
\* received is ever invoked.
C26_NilTerminatesRun ==
    /\ [][\A o \in OpIds : ReceivesNil(o) => runPc' = "exited"]_vars
    /\ [](\A o \in Range(dequeued), o2 \in Range(accepted) :
             (ops[o].kind = "nil" /\ Pos(accepted, o2) > Pos(accepted, o))
                 => o2 \notin Range(started))

\* Run received a nil operation and returned with no Stop and no
\* cancellation, leaving the operation accepted after it in the channel
C26_Witness ==
    /\ nStop = 0
    /\ ~parentCancelled
    /\ runPc = "exited"
    /\ \E o \in Range(dequeued) :
          /\ ops[o].kind = "nil"
          /\ \E o2 \in Range(chanBuf) :
                /\ Pos(accepted, o2) > Pos(accepted, o)
                /\ ops[o2].kind = "enq"

\* Run is inside the wrapper of the call o
InWrapper(o) == curOp = o /\ runPc \in {"inop", "sendc"}

\* The private channel c of the call o is closed: defer close(c) has run
CClosed(o) == ops[o].call \in {"returned", "panicked"}

\* C27: the wrapper of a Join / JoinTimeout never sends on its closed
\* channel, and once Run has left the wrapper exactly one value has been sent
\* and the caller has returned that value, true in the case of Join.
C27_OneSignalPerCall ==
    /\ runPc = "sendc" => ~CClosed(curOp)
    /\ \A o \in OpIds :
          (ops[o].kind \in {"join", "jt"} /\ WrapperRan(o) /\ ~InWrapper(o)) =>
              /\ ops[o].call = "returned"
              /\ ops[o].kind = "join" => ops[o].ret = TRUE

====
